---- MODULE Spec2Model ----
(***************************************************************************)
(* Model of public/script.js: the chat widget's markup formatter           *)
(* (formatMessageText) and its conversation controller (the submit         *)
(* handler with addMessage / replaceTemporaryMessage).                     *)
(*                                                                         *)
(* Text is a sequence of one-character strings, so that the regular        *)
(* expression stages of the formatter are computed character by character. *)
(***************************************************************************)
EXTENDS Integers, Sequences, FiniteSets, TLC

\* ------------------------------------------------------------------ bounds

\* Longest input of the formatter that is enumerated exhaustively.
MaxLen == 3
\* Number of non-empty submissions in one page session.
MaxSubmits == 2

\* ------------------------------------------------------------- characters

NL == "\n"
SP == " "
\* The backquote character, which a TLA+ string cannot spell: an atom of its own.
BQ == "backquote"

\* \s of the regular expressions and of String.prototype.trim, within the
\* characters the model draws from.
IsSpace(c) == c \in {SP, NL}

\* ------------------------------------------------------------ text helpers

Least(S) == CHOOSE k \in S : \A m \in S : k <= m
Greatest(S) == CHOOSE k \in S : \A m \in S : k >= m

\* p occurs in s starting at index i
MatchAt(s, i, p) ==
    /\ i >= 1
    /\ i + Len(p) - 1 <= Len(s)
    /\ \A k \in 1..Len(p) : s[i + k - 1] = p[k]

StartsWith(s, p) == MatchAt(s, 1, p)

Drop(s, n) == SubSeq(s, n + 1, Len(s))

IsSubstring(p, s) == \E i \in 1..(Len(s) - Len(p) + 1) : MatchAt(s, i, p)

\* Least index k >= i where p occurs in s, 0 when there is none: where a
\* scan for the literal p resumed at i finds its next match.
FirstMatch(s, i, p) ==
    LET S == {k \in i..Len(s) : MatchAt(s, k, p)}
    IN  IF S = {} THEN 0 ELSE Least(S)

\* Greatest index where p occurs in s, 0 when there is none.
LastMatch(s, p) ==
    LET S == {k \in 1..Len(s) : MatchAt(s, k, p)}
    IN  IF S = {} THEN 0 ELSE Greatest(S)

\* s.replace(/pat/g, rep) for a literal pattern pat: leftmost matches,
\* left to right, not overlapping, the replacement not scanned again.
RECURSIVE ReplaceAllFrom(_, _, _, _)
ReplaceAllFrom(s, i, pat, rep) ==
    LET k == FirstMatch(s, i, pat)
    IN  IF k = 0 THEN SubSeq(s, i, Len(s))
        ELSE SubSeq(s, i, k - 1) \o rep
                 \o ReplaceAllFrom(s, k + Len(pat), pat, rep)

ReplaceAll(s, pat, rep) == ReplaceAllFrom(s, 1, pat, rep)

\* The lines of s: the pieces between line terminators, the positions where
\* ^ and $ match under the m flag.
RECURSIVE LinesFrom(_, _)
LinesFrom(s, i) ==
    LET k == FirstMatch(s, i, <<NL>>)
    IN  IF k = 0 THEN <<SubSeq(s, i, Len(s))>>
        ELSE <<SubSeq(s, i, k - 1)>> \o LinesFrom(s, k + 1)

Lines(s) == LinesFrom(s, 1)

RECURSIVE JoinLines(_)
JoinLines(ls) ==
    IF Len(ls) = 0 THEN <<>>
    ELSE IF Len(ls) = 1 THEN ls[1]
         ELSE ls[1] \o <<NL>> \o JoinLines(Tail(ls))

\* First index k >= i that is past the end of s or holds a non-space: the
\* end of a greedy run of \s started at i.
SkipSpaces(s, i) ==
    LET S == {k \in i..Len(s) : ~IsSpace(s[k])}
    IN  IF S = {} THEN Len(s) + 1 ELSE Least(S)

\* String.prototype.trim
TrimLeft(s) == Drop(s, SkipSpaces(s, 1) - 1)

TrimRight(s) ==
    LET S == {k \in 1..Len(s) : ~IsSpace(s[k])}
    IN  IF S = {} THEN <<>> ELSE SubSeq(s, 1, Greatest(S))

Trim(s) == TrimRight(TrimLeft(s))

\* ------------------------------------------------------- generated markup

AMP == <<"&", "a", "m", "p", ";">>
LT == <<"&", "l", "t", ";">>
GT == <<"&", "g", "t", ";">>

H1o == <<"<", "h", "1", ">">>
H1c == <<"<", "/", "h", "1", ">">>
H2o == <<"<", "h", "2", ">">>
H2c == <<"<", "/", "h", "2", ">">>
H3o == <<"<", "h", "3", ">">>
H3c == <<"<", "/", "h", "3", ">">>
STRONGo == <<"<", "s", "t", "r", "o", "n", "g", ">">>
STRONGc == <<"<", "/", "s", "t", "r", "o", "n", "g", ">">>
EMo == <<"<", "e", "m", ">">>
EMc == <<"<", "/", "e", "m", ">">>
CODEo == <<"<", "c", "o", "d", "e", ">">>
CODEc == <<"<", "/", "c", "o", "d", "e", ">">>
PREo == <<"<", "p", "r", "e", ">">>
PREc == <<"<", "/", "p", "r", "e", ">">>
BR == <<"<", "b", "r", ">">>
LIo == <<"<", "l", "i", ">">>
LIc == <<"<", "/", "l", "i", ">">>
ULo == <<"<", "u", "l", ">">>
ULc == <<"<", "/", "u", "l", ">">>
OLo == <<"<", "o", "l", ">">>
OLc == <<"<", "/", "o", "l", ">">>
Po == <<"<", "p", ">">>
Pc == <<"<", "/", "p", ">">>
Ao == <<"<", "a", ">">>
Ac == <<"<", "/", "a", ">">>
AHREF == <<"<", "a", " ", "h", "r", "e", "f", "=", "\"">>
ATAIL == <<"\"", " ", "t", "a", "r", "g", "e", "t", "=", "\"", "_", "b", "l", "a", "n", "k", "\"", " ", "r", "e", "l", "=", "\"", "n", "o", "o", "p", "e", "n", "e", "r", " ", "n", "o", "r", "e", "f", "e", "r", "r", "e", "r", "\"", ">">>
HTTP == <<"h", "t", "t", "p", ":", "/", "/">>
HTTPS == <<"h", "t", "t", "p", "s", ":", "/", "/">>

\* ---------------------------------------------------- formatMessageText


\* escapeHtml without the replacement of <.
escapeHtmlKeepsLt(text) ==
    ReplaceAll(ReplaceAll(text, <<"&">>, AMP), <<">">>, GT)

\* text.replace(/&/g,'&amp;').replace(/</g,'&lt;').replace(/>/g,'&gt;')
escapeHtml(text) ==
    ReplaceAll(ReplaceAll(ReplaceAll(text, <<"&">>, AMP), <<"<">>, LT), <<">">>, GT)

\* One line under a heading expression (^ marker, the rest of the line as
\* group 1, $; flags gm), replaced by open $1 close.
HeadingLine(line, marker, open, close) ==
    IF StartsWith(line, marker)
    THEN open \o Drop(line, Len(marker)) \o close
    ELSE line

headingStage(text, marker, open, close) ==
    LET ls == Lines(text)
    IN  JoinLines([k \in 1..Len(ls) |-> HeadingLine(ls[k], marker, open, close)])

headings(text) ==
    headingStage(
        headingStage(
            headingStage(text, <<"#", "#", "#", SP>>, H3o, H3c),
            <<"#", "#", SP>>, H2o, H2c),
        <<"#", SP>>, H1o, H1c)

\* The end of the lazy group of a delimiter expression (d, lazy group, d)
\* whose group starts at k: the first index from k on where d matches again,
\* every character before it being one that . matches (any character with
\* dotall, any but a line terminator without); 0 when there is none.
LazyClose(s, k, d, dotall) ==
    LET j == FirstMatch(s, k, d)
    IN  IF j = 0 THEN 0
        ELSE IF ~dotall /\ \E m \in k..(j - 1) : s[m] = NL THEN 0
             ELSE j

\* s.replace of a delimiter expression (flag g) by open $1 close: the scan
\* resumed at i goes to the next d; a d that no later d closes stays as it
\* is and the scan resumes one character after it.
RECURSIVE SpanFrom(_, _, _, _, _, _)
SpanFrom(s, i, d, open, close, dotall) ==
    LET k == FirstMatch(s, i, d)
        j == LazyClose(s, k + Len(d), d, dotall)
    IN  IF k = 0 THEN SubSeq(s, i, Len(s))
        ELSE IF j # 0
             THEN SubSeq(s, i, k - 1) \o open
                      \o SubSeq(s, k + Len(d), j - 1) \o close
                      \o SpanFrom(s, j + Len(d), d, open, close, dotall)
             ELSE SubSeq(s, i, k) \o SpanFrom(s, k + 1, d, open, close, dotall)

spanStage(s, d, open, close, dotall) == SpanFrom(s, 1, d, open, close, dotall)

bold(text) == spanStage(text, <<"*", "*">>, STRONGo, STRONGc, FALSE)
italics(text) == spanStage(text, <<"*">>, EMo, EMc, FALSE)
inlineCode(text) == spanStage(text, <<BQ>>, CODEo, CODEc, FALSE)
codeBlocks(text) ==
    spanStage(text, <<BQ, BQ, BQ>>, PREo \o CODEo, CODEc \o PREc, TRUE)

lineBreaks(text) == ReplaceAll(text, <<NL>>, BR)

IsDigit(c) == c \in {"0", "1", "2", "3", "4", "5", "6", "7", "8", "9"}

\* End of a greedy run of \d started at i.
SkipDigits(s, i) ==
    LET S == {k \in i..Len(s) : ~IsDigit(s[k])}
    IN  IF S = {} THEN Len(s) + 1 ELSE Least(S)

\* Where $ matches at or after i: the next line terminator or the end.
LineEnd(s, i) ==
    LET k == FirstMatch(s, i, <<NL>>)
    IN  IF k = 0 THEN Len(s) + 1 ELSE k

\* Where ^ matches under the m flag.
AtLineStart(s, i) == i = 1 \/ s[i - 1] = NL

\* The bulleted item expression (^, spaces, - or *, one or more spaces, the
\* rest of the line as group 1, $) tried at i: the index where group 1
\* starts, 0 when the expression does not match at i.
BulletBody(s, i) ==
    LET a == SkipSpaces(s, i)
    IN  IF /\ AtLineStart(s, i)
           /\ a <= Len(s)
           /\ s[a] \in {"-", "*"}
           /\ a + 1 <= Len(s)
           /\ IsSpace(s[a + 1])
        THEN SkipSpaces(s, a + 1)
        ELSE 0

\* The numbered item expression (^, spaces, digits, a dot, one or more
\* spaces, the rest of the line as group 1, $) tried at i, likewise.
NumberBody(s, i) ==
    LET a == SkipSpaces(s, i)
        d == SkipDigits(s, a)
    IN  IF /\ AtLineStart(s, i)
           /\ d > a
           /\ d <= Len(s)
           /\ s[d] = "."
           /\ d + 1 <= Len(s)
           /\ IsSpace(s[d + 1])
        THEN SkipSpaces(s, d + 1)
        ELSE 0

\* text.replace of the bulleted item expression (numbered = FALSE) or of
\* the numbered item expression (numbered = TRUE), flags gm, by <li>$1</li>.
\* i is a line start; where the expression does not match, the scan resumes
\* at the next line start.
RECURSIVE ItemsFrom(_, _, _)
ItemsFrom(s, i, numbered) ==
    LET b == IF numbered THEN NumberBody(s, i) ELSE BulletBody(s, i)
        e == LineEnd(s, b)
        n == LineEnd(s, i)
    IN  IF i > Len(s) THEN <<>>
        ELSE IF b # 0
             THEN LIo \o SubSeq(s, b, e - 1) \o LIc
                      \o (IF e > Len(s) THEN <<>>
                          ELSE <<NL>> \o ItemsFrom(s, e + 1, numbered))
             ELSE IF n > Len(s) THEN SubSeq(s, i, Len(s))
                  ELSE SubSeq(s, i, n) \o ItemsFrom(s, n + 1, numbered)

listItems(text, numbered) == ItemsFrom(text, 1, numbered)

\* text.replace of <li>, anything, </li> (flags gms) by open $1 close:
\* greedy and dotall, so the one match runs from the first <li> to the
\* last </li>.
wrapItems(text, open, close) ==
    LET i == FirstMatch(text, 1, LIo)
        j == LastMatch(text, LIc)
    IN  IF i # 0 /\ j >= i + Len(LIo)
        THEN SubSeq(text, 1, i - 1) \o open
                 \o SubSeq(text, i, j + Len(LIc) - 1) \o close
                 \o Drop(text, j + Len(LIc) - 1)
        ELSE text

\* End of the greedy run of characters that are neither a space nor )
\* started at i.
UrlEnd(s, i) ==
    LET S == {k \in i..Len(s) : IsSpace(s[k]) \/ s[k] = ")"}
    IN  IF S = {} THEN Len(s) + 1 ELSE Least(S)

\* The link expression ([, a label without ], ](, http:// or https:// and a
\* run without space or ), then )) tried at i: <<c, e>> with c the
\* index of the ] and e the index of the closing ), <<0, 0>> when the
\* expression does not match at i.
LinkAt(s, i) ==
    LET c == FirstMatch(s, i + 1, <<"]">>)
        u == IF MatchAt(s, c + 2, HTTPS) THEN c + 2 + Len(HTTPS)
             ELSE IF MatchAt(s, c + 2, HTTP) THEN c + 2 + Len(HTTP)
             ELSE 0
        e == UrlEnd(s, u)
    IN  IF /\ s[i] = "["
           /\ c > i + 1
           /\ MatchAt(s, c + 1, <<"(">>)
           /\ u # 0
           /\ e > u
           /\ e <= Len(s)
           /\ s[e] = ")"
        THEN <<c, e>>
        ELSE <<0, 0>>

\* text.replace of the link expression (flag g) by the anchor element.
RECURSIVE LinksFrom(_, _)
LinksFrom(s, i) ==
    LET k == FirstMatch(s, i, <<"[">>)
        m == LinkAt(s, k)
    IN  IF k = 0 THEN SubSeq(s, i, Len(s))
        ELSE IF m[1] # 0
             THEN SubSeq(s, i, k - 1) \o AHREF
                      \o SubSeq(s, m[1] + 2, m[2] - 1) \o ATAIL
                      \o SubSeq(s, k + 1, m[1] - 1) \o Ac
                      \o LinksFrom(s, m[2] + 1)
             ELSE SubSeq(s, i, k) \o LinksFrom(s, k + 1)

links(text) == LinksFrom(text, 1)

\* The alternatives of the negative lookahead of the paragraph stage.
ParagraphExempt == {ULo, OLo, LIo, PREo, CODEo, STRONGo, EMo, Ao}

\* One line under the paragraph expression (^, the negative lookahead, a
\* non-empty rest of the line as group 1, $; flags gm) -> <p>$1</p>
ParagraphLine(line) ==
    IF Len(line) > 0 /\ \A t \in ParagraphExempt : ~StartsWith(line, t)
    THEN Po \o line \o Pc
    ELSE line

paragraphs(text) ==
    LET ls == Lines(text)
    IN  JoinLines([k \in 1..Len(ls) |-> ParagraphLine(ls[k])])

\* text.replace(/\s+/g, ' ')
RECURSIVE CollapseFrom(_, _)
CollapseFrom(s, i) ==
    LET S == {k \in i..Len(s) : IsSpace(s[k])}
        k == Least(S)
    IN  IF S = {} THEN SubSeq(s, i, Len(s))
        ELSE SubSeq(s, i, k - 1) \o <<SP>> \o CollapseFrom(s, SkipSpaces(s, k))

collapseSpaces(text) == CollapseFrom(text, 1)

\* The stages between the escape and the whitespace normalisation, in the
\* order of the source.
markup(text) ==
    LET t1 == headings(text)
        t2 == bold(t1)
        t3 == italics(t2)
        t4 == inlineCode(t3)
        t5 == codeBlocks(t4)
        t6 == lineBreaks(t5)
        t7 == listItems(t6, FALSE)
        t8 == wrapItems(t7, ULo, ULc)
        t9 == listItems(t8, TRUE)
        t10 == wrapItems(t9, OLo, OLc)
        t11 == links(t10)
    IN  paragraphs(t11)

formatMessageText(text) ==
    IF text = <<>> THEN <<>>
    ELSE Trim(collapseSpaces(markup(escapeHtml(text))))

\* =================================================== conversation controller

THINKING == <<"T", "h", "i", "n", "k", "i", "n", "g", ".", ".", ".">>
SORRY == <<"S", "o", "r", "r", "y", ",", " ", "n", "o", " ", "r", "e", "s", "p", "o", "n", "s", "e", " ", "r", "e", "c", "e", "i", "v", "e", "d", ".">>
FAILED == <<"F", "a", "i", "l", "e", "d", " ", "t", "o", " ", "g", "e", "t", " ", "r", "e", "s", "p", "o", "n", "s", "e", " ", "f", "r", "o", "m", " ", "s", "e", "r", "v", "e", "r", ".">>
HTTP_ERROR == <<"H", "T", "T", "P", " ", "e", "r", "r", "o", "r", "!", " ", "s", "t", "a", "t", "u", "s", ":", " ">>

VARIABLES
    chatBox,          \* the children of #chat-box, in document order
    inputValue,       \* userInput.value
    inputDisabled,    \* userInput.disabled
    buttonDisabled,   \* sendButton.disabled
    calls,            \* the invocations of the submit handler suspended at an await
    consoleErrors,    \* the messages given to console.error
    settled,          \* history: the exchanges that ran to the end of the handler
    event,            \* history: the kind of the last event handled
    fmtIn,            \* formatter run: the argument of formatMessageText
    fmtOut,           \* formatter run: its return value
    fmtPc             \* formatter run: "idle", "call" or "return"

vars ==
    <<chatBox, inputValue, inputDisabled, buttonDisabled, calls, consoleErrors,
      settled, event, fmtIn, fmtOut, fmtPc>>

ctlVars ==
    <<chatBox, inputValue, inputDisabled, buttonDisabled, calls, consoleErrors,
      settled, event>>

fmtVars == <<fmtIn, fmtOut, fmtPc>>

\* ---------------------------------------------------------------- inputs

\* What the user types into the input field.
InputTexts ==
    { <<>>, <<SP, NL>>, <<SP, "y", "o", SP>> }

\* A JSON value of a response body field: absent, a string or a number.
Absent == [t |-> "absent", s |-> <<>>, n |-> 0]
Str(x) == [t |-> "string", s |-> x, n |-> 0]
Num(k) == [t |-> "number", s |-> <<>>, n |-> k]

\* A response body: text that is not JSON, the JSON null, or a JSON object
\* with the fields the handler reads (result, error.message, message).
NotJson ==
    [parses |-> FALSE, isNull |-> FALSE,
     result |-> Absent, error |-> Absent, message |-> Absent]
JsonNull ==
    [parses |-> TRUE, isNull |-> TRUE,
     result |-> Absent, error |-> Absent, message |-> Absent]
Obj(r, e, m) ==
    [parses |-> TRUE, isNull |-> FALSE, result |-> r, error |-> e, message |-> m]

BOOM == <<"b", "o", "o", "m">>
DENIED == <<"d", "e", "n", "i", "e", "d">>

RESULT == <<"#", SP, "<", "T">>

\* The responses the server gives: a status with a body.
Responses ==
    { [status |-> 200, body |-> NotJson],
      [status |-> 200, body |-> JsonNull],
      [status |-> 200, body |-> Obj(Absent, Absent, Absent)],
      [status |-> 200, body |-> Obj(Str(<<>>), Absent, Absent)],
      [status |-> 200, body |-> Obj(Str(RESULT), Absent, Absent)],
      [status |-> 200, body |-> Obj(Num(7), Absent, Absent)],
      [status |-> 200, body |-> Obj(Absent, Str(BOOM), Absent)],
      [status |-> 500, body |-> NotJson],
      [status |-> 500, body |-> JsonNull],
      [status |-> 500, body |-> Obj(Absent, Absent, Absent)],
      [status |-> 500, body |-> Obj(Absent, Str(BOOM), Absent)],
      [status |-> 500, body |-> Obj(Absent, Absent, Str(DENIED))],
      [status |-> 500, body |-> Obj(Absent, Str(<<>>), Str(DENIED))] }

\* response.ok
Ok(status) == status \in 200..299

\* JavaScript truthiness of a field value.
Truthy(v) ==
    \/ v.t = "string" /\ v.s # <<>>
    \/ v.t = "number" /\ v.n # 0

\* Decimal digits of a natural number, as template literals print it.
DigitChars == <<"0", "1", "2", "3", "4", "5", "6", "7", "8", "9">>

RECURSIVE NumberText(_)
NumberText(k) ==
    IF k < 10 THEN <<DigitChars[k + 1]>>
    ELSE NumberText(k \div 10) \o <<DigitChars[(k % 10) + 1]>>

\* ------------------------------------------------------------- operations

Sender(element) == IF "user" \in element.classes THEN "user" ELSE "bot"


\* addMessage inserting the element before the first child.
addMessageFirst(box, sender, message, isTemporary) ==
    <<[classes |-> {"chat-message", sender}
                       \cup (IF isTemporary THEN {"thinking"} ELSE {}),
       content |-> IF sender = "bot" THEN formatMessageText(message)
                   ELSE message,
       temporary |-> isTemporary]>> \o box

\* addMessage(sender, message, isTemporary): the chat box after the call;
\* the element it returns is the last one.
addMessage(box, sender, message, isTemporary) ==
    Append(box,
           [classes |-> {"chat-message", sender}
                            \cup (IF isTemporary THEN {"thinking"} ELSE {}),
            content |-> IF sender = "bot" THEN formatMessageText(message)
                        ELSE message,
            temporary |-> isTemporary])


\* replaceTemporaryMessage assigning the message without formatting it.
replaceTemporaryMessageRaw(box, el, newMessage) ==
    IF el \in 1..Len(box) /\ box[el].temporary
    THEN [box EXCEPT ![el] =
              [classes |-> (@.classes \ {"thinking"}) \cup {"bot"},
               content |-> newMessage,
               temporary |-> FALSE]]
    ELSE box

\* replaceTemporaryMessage(tempElement, newMessage), tempElement being the
\* element at index el: the chat box after the call.
replaceTemporaryMessage(box, el, newMessage) ==
    IF el \in 1..Len(box) /\ box[el].temporary
    THEN [box EXCEPT ![el] =
              [classes |-> (@.classes \ {"thinking"}) \cup {"bot"},
               content |-> formatMessageText(newMessage),
               temporary |-> FALSE]]
    ELSE box


\* userMessageOf without the trim.
userMessageUntrimmed(value) == value

\* const userMessage = userInput.value.trim()
userMessageOf(value) == Trim(value)


\* submitDisabled when lines 104-105 are left out.
submitDisabledNot == FALSE

\* The value lines 104-105 give userInput.disabled and sendButton.disabled.
submitDisabled == TRUE


\* finallyDisabled when the finally block is left out.
finallyDisabledNot == TRUE

\* The value the finally block gives them.
finallyDisabled == FALSE


\* catchMessage showing the message of the error it caught.
catchMessageLeaks(errorMessage) == errorMessage

\* The message the catch block shows for the error it caught.
catchMessage(errorMessage) == FAILED


\* successMessage with the failure literal as its fallback.
successMessageFailed(data) ==
    IF ~data.isNull /\ Truthy(data.result) THEN data.result.s ELSE FAILED

\* The message the handler shows for the parsed body of a 2xx response.
successMessage(data) ==
    IF ~data.isNull /\ Truthy(data.result) THEN data.result.s ELSE SORRY

\* formatMessageText calls text.replace, which only a string has.
formatThrows(data) ==
    ~data.isNull /\ Truthy(data.result) /\ data.result.t # "string"

\* errorData.error?.message || errorData.message || errorMessage
errorMessageOf(status, errorData) ==
    IF Truthy(errorData.error) THEN errorData.error.s
    ELSE IF Truthy(errorData.message) THEN errorData.message.s
    ELSE HTTP_ERROR \o NumberText(status)

\* ------------------------------------------------------------------ state

InitCtl ==
    /\ chatBox = <<>>
    /\ inputValue = <<>>
    /\ inputDisabled = FALSE
    /\ buttonDisabled = FALSE
    /\ calls = {}
    /\ consoleErrors = {}
    /\ settled = {}
    /\ event = "load"

InitFmtIdle ==
    /\ fmtIn = <<>>
    /\ fmtOut = <<>>
    /\ fmtPc = "idle"

Init == InitCtl /\ InitFmtIdle

\* The user edits the input field, which an enabled field allows.
Type(v) ==
    /\ ~inputDisabled
    /\ v # inputValue
    /\ inputValue' = v
    /\ event' = "input"
    /\ UNCHANGED <<chatBox, inputDisabled, buttonDisabled, calls,
                   consoleErrors, settled, fmtVars>>

\* The submit event, up to the first await. The browser raises it through
\* the submit button, which it does not do while the button is disabled.
Submit ==
    /\ ~buttonDisabled
    /\ Len(chatBox) < 2 * MaxSubmits
    /\ event' = "submit"
    /\ LET userMessage == userMessageOf(inputValue)
       IN  IF userMessage = <<>>
           THEN UNCHANGED <<chatBox, inputValue, inputDisabled, buttonDisabled,
                            calls>>
           ELSE /\ chatBox' = addMessage(addMessage(chatBox, "user", userMessage, FALSE),
                                         "bot", THINKING, TRUE)
                /\ inputValue' = <<>>
                /\ inputDisabled' = submitDisabled
                /\ buttonDisabled' = submitDisabled
                /\ calls' = calls \cup
                       {[el |-> Len(chatBox) + 2, userMessage |-> userMessage,
                         pc |-> "fetch", status |-> 0, body |-> NotJson]}
    /\ UNCHANGED <<consoleErrors, settled, fmtVars>>

\* The catch block followed by the finally block, for the call c that threw
\* an error with the given message.
CatchFinally(c, errorMessage) ==
    /\ consoleErrors' = consoleErrors \cup {errorMessage}
    /\ chatBox' = replaceTemporaryMessage(chatBox, c.el, catchMessage(errorMessage))
    /\ inputDisabled' = finallyDisabled
    /\ buttonDisabled' = finallyDisabled
    /\ calls' = calls \ {c}
    /\ settled' = settled \cup
           {[el |-> c.el, status |-> c.status, body |-> c.body,
             branch |-> "failure", error |-> errorMessage]}

NETWORK == <<"n", "e", "t">>
TYPEERR == <<"t", "y", "p", "e">>
SYNTAXERR == <<"s", "y", "n", "t", "a", "x">>

\* await fetch(...) rejects: the network is unreachable.
FetchRejects(c) ==
    /\ c \in calls
    /\ c.pc = "fetch"
    /\ event' = "fetch"
    /\ CatchFinally(c, NETWORK)
    /\ UNCHANGED <<inputValue, fmtVars>>

\* await fetch(...) resolves with a response; the handler goes on to the
\* await of response.json() of the branch response.ok selects.
FetchResolves(c, response) ==
    /\ c \in calls
    /\ c.pc = "fetch"
    /\ event' = "fetch"
    /\ calls' = (calls \ {c}) \cup
           {[c EXCEPT !.pc = IF Ok(response.status) THEN "json" ELSE "errorJson",
                      !.status = response.status, !.body = response.body]}
    /\ UNCHANGED <<chatBox, inputValue, inputDisabled, buttonDisabled,
                   consoleErrors, settled, fmtVars>>

\* await response.json() of the non-2xx branch settles: the handler throws
\* Error(errorMessage), after logging the inner failure when the body does
\* not parse or is null.
ErrorJsonSettles(c) ==
    /\ c \in calls
    /\ c.pc = "errorJson"
    /\ event' = "errorJson"
    /\ LET inner == ~c.body.parses \/ c.body.isNull
           errorMessage == IF inner THEN HTTP_ERROR \o NumberText(c.status)
                           ELSE errorMessageOf(c.status, c.body)
       IN  /\ consoleErrors' =
                  consoleErrors \cup {errorMessage}
                      \cup (IF ~c.body.parses THEN {SYNTAXERR}
                            ELSE IF c.body.isNull THEN {TYPEERR} ELSE {})
           /\ chatBox' = replaceTemporaryMessage(chatBox, c.el, catchMessage(errorMessage))
           /\ inputDisabled' = finallyDisabled
           /\ buttonDisabled' = finallyDisabled
           /\ calls' = calls \ {c}
           /\ settled' = settled \cup
                  {[el |-> c.el, status |-> c.status, body |-> c.body,
                    branch |-> "failure", error |-> errorMessage]}
    /\ UNCHANGED <<inputValue, fmtVars>>

\* await response.json() of the 2xx branch settles: it rejects (catch), or
\* the handler replaces the placeholder; formatMessageText throwing inside
\* replaceTemporaryMessage is caught too. Then the finally block.
JsonSettles(c) ==
    /\ c \in calls
    /\ c.pc = "json"
    /\ event' = "json"
    /\ IF ~c.body.parses THEN CatchFinally(c, SYNTAXERR)
       ELSE IF formatThrows(c.body) THEN CatchFinally(c, TYPEERR)
       ELSE /\ chatBox' = replaceTemporaryMessage(chatBox, c.el, successMessage(c.body))
            /\ inputDisabled' = finallyDisabled
            /\ buttonDisabled' = finallyDisabled
            /\ calls' = calls \ {c}
            /\ settled' = settled \cup
                   {[el |-> c.el, status |-> c.status, body |-> c.body,
                     branch |-> IF ~c.body.isNull /\ Truthy(c.body.result)
                                THEN "success" ELSE "malformed",
                     error |-> <<>>]}
            /\ UNCHANGED consoleErrors
    /\ UNCHANGED <<inputValue, fmtVars>>

Next ==
    \/ \E v \in InputTexts : Type(v)
    \/ Submit
    \/ \E c \in calls : FetchRejects(c)
    \/ \E c \in calls, response \in Responses : FetchResolves(c, response)
    \/ \E c \in calls : ErrorJsonSettles(c)
    \/ \E c \in calls : JsonSettles(c)

Spec == Init /\ [][Next]_vars

\* ======================================================= formatter alone

\* The characters the exhaustive inputs draw from.
Alphabet == {"&", "<", ">", "#", "*", "-", SP, NL, BQ, "1", ".", "a"}

\* Longer inputs: the lists, headings, fences and links of the specification.
Samples ==
    { <<"-", " ", "a", NL, "-", " ", "b">>,
      <<"*", " ", "a", NL, "*", " ", "b", NL, "*", " ", "c">>,
      <<"1", ".", " ", "a", NL, "2", ".", " ", "b">>,
      <<"#", " ", "T", "i", "t", "l", "e">>,
      <<"#", "#", " ", "T", "w", "o">>,
      <<"#", "#", "#", " ", "T", "h", "r", "e", "e", NL, "r", "e", "s", "t">>,
      <<"*", "*", "b", "o", "l", "d", "*", "*">>,
      <<"#", " ", "<", "s", "c", "r", "i", "p", "t", ">", "&", "*", "x", "*">>,
      <<BQ, BQ, BQ, NL, "x", "<", NL, BQ, BQ, BQ>>,
      <<"[", "x", "]", "(", "h", "t", "t", "p", ":", "/", "/", "a", ")">>,
      <<"[", "<", "b", ">", "]", "(", "h", "t", "t", "p", "s", ":", "/", "/", "a", "?", "b", "&", "c", ")">>,
      <<"[", "x", "]", "(", "h", "t", "t", "p", ":", "/", "/", "a", "\"", "*", "b", "*", ")">>,
      <<"[", "x", "]", "(", "f", "t", "p", ":", "/", "/", "a", ")">> }

FormatInputs ==
    UNION {[1..k -> Alphabet] : k \in 0..MaxLen} \cup Samples

InitFormat ==
    /\ InitCtl
    /\ fmtIn \in FormatInputs
    /\ fmtOut = <<>>
    /\ fmtPc = "call"

\* One call of formatMessageText.
Format ==
    /\ fmtPc = "call"
    /\ fmtOut' = formatMessageText(fmtIn)
    /\ fmtPc' = "return"
    /\ UNCHANGED <<fmtIn, ctlVars>>

NextFormat == Format

SpecFormat == InitFormat /\ [][NextFormat]_vars

\* ================================================================== claims

CountOcc(s, p) == Cardinality({i \in 1..Len(s) : MatchAt(s, i, p)})

Pending == {i \in 1..Len(chatBox) : chatBox[i].temporary}

\* C1: in every reachable state at most one message of the log is pending
\* and at most one request is in flight; the pending message is the
\* placeholder of the call in flight.
C1_AtMostOnePending ==
    /\ Cardinality(Pending) <= 1
    /\ Cardinality(calls) <= 1
    /\ \A i \in 1..Len(chatBox) :
           chatBox[i].temporary <=> \E c \in calls : c.el = i

\* A second submission is awaiting its response after the first settled.
C1_Witness ==
    /\ Len(chatBox) = 4
    /\ Pending = {4}
    /\ Cardinality(calls) = 1
    /\ Cardinality(settled) = 1

\* C2: the input is locked exactly while an exchange is awaiting its
\* response: after a non-empty submit the controller is awaiting with both
\* controls disabled, and once the exchange has settled, with whichever
\* outcome, no call is left and both controls are enabled.
C2_LockedExactlyWhileAwaiting ==
    /\ inputDisabled = buttonDisabled
    /\ inputDisabled <=> calls # {}
    /\ \A d \in settled : ~chatBox[d.el].temporary
    /\ (event \in {"json", "errorJson"} => ~inputDisabled /\ calls = {})
    /\ (event = "submit" /\ Pending # {} => inputDisabled /\ calls # {})

\* Two exchanges settled, one as a failure and one as a malformed success,
\* and the input is enabled.
C2_Witness ==
    /\ \E d \in settled : d.branch = "failure"
    /\ \E d \in settled : d.branch = "malformed"
    /\ ~inputDisabled
    /\ ~buttonDisabled
    /\ calls = {}

HasStringResult(d) ==
    /\ d.status # 0
    /\ Ok(d.status)
    /\ d.body.parses
    /\ ~d.body.isNull
    /\ d.body.result.t = "string"

\* C3 as stated: for every 2xx response whose JSON body has a string
\* result field, the pending entry of that submission is replaced by
\* format(result) and not by a fallback literal.
C3_StringResultShown ==
    \A d \in settled :
        HasStringResult(d) =>
            /\ d.branch = "success"
            /\ chatBox[d.el].content = formatMessageText(d.body.result.s)

\* C3 amended: for every 2xx response whose JSON body has a non-empty string
\* result field, the pending entry of that submission is replaced by
\* format(result) and not by a fallback literal.
C3_NonEmptyResultShown ==
    \A d \in settled :
        HasStringResult(d) /\ d.body.result.s # <<>> =>
            /\ d.branch = "success"
            /\ chatBox[d.el].content = formatMessageText(d.body.result.s)
            /\ ~chatBox[d.el].temporary

\* An exchange settled with a non-empty string result, shown formatted.
C3_Witness ==
    \E d \in settled :
        /\ HasStringResult(d)
        /\ d.body.result.s = RESULT
        /\ chatBox[d.el].content = formatMessageText(RESULT)
        /\ chatBox[d.el].content # RESULT

\* The exchanges that ended in a transport failure: the fetch rejected, the
\* status was not 2xx, or the body of a 2xx response did not parse.
TransportFailure(d) ==
    \/ d.status = 0
    \/ ~Ok(d.status)
    \/ ~d.body.parses

\* C4: for every transport failure the pending entry becomes the fixed
\* literal "Failed to get response from server."; the message of the error
\* (error.message, message or the HTTP status text) goes to the console and
\* appears in no entry of the log.
C4_FailureShowsFixedLiteral ==
    \A d \in settled :
        TransportFailure(d) =>
            /\ d.branch = "failure"
            /\ chatBox[d.el].content = formatMessageText(FAILED)
            /\ d.error \in consoleErrors
            /\ \A i \in 1..Len(chatBox) :
                   ~IsSubstring(d.error, chatBox[i].content)

\* A rejected fetch and a 500 whose body carries error.message both ended in
\* the fixed literal.
C4_Witness ==
    /\ \E d \in settled : d.status = 0 /\ d.error = NETWORK
    /\ \E d \in settled :
           /\ d.status = 500
           /\ d.error = BOOM
           /\ chatBox[d.el].content = formatMessageText(FAILED)

\* C5: for every 2xx response whose JSON body has no result field the
\* pending entry becomes "Sorry, no response received." and not the failure
\* literal.
C5_MissingResultShowsSorry ==
    \A d \in settled :
        (/\ d.status # 0
         /\ Ok(d.status)
         /\ d.body.parses
         /\ d.body.result = Absent) =>
            /\ d.branch = "malformed"
            /\ chatBox[d.el].content = formatMessageText(SORRY)
            /\ chatBox[d.el].content # formatMessageText(FAILED)

\* A 200 with the body {} settled.
C5_Witness ==
    \E d \in settled :
        /\ d.status = 200
        /\ d.body = Obj(Absent, Absent, Absent)
        /\ chatBox[d.el].content = formatMessageText(SORRY)

\* C6: a submit whose text is empty or only whitespace changes nothing: the
\* log, the lock of the input and of the button, the input's value and the
\* requests in flight are the same after it.
C6_EmptySubmitChangesNothing ==
    [][(event' = "submit" /\ Trim(inputValue) = <<>>) =>
           UNCHANGED <<chatBox, inputDisabled, buttonDisabled, inputValue,
                       calls, settled, consoleErrors>>]_vars

\* A whitespace-only text was submitted after an earlier exchange (a
\* submit that is not ignored empties the input's value).
C6_Witness ==
    /\ event = "submit"
    /\ inputValue = <<SP, NL>>
    /\ Len(chatBox) = 2
    /\ ~inputDisabled
    /\ calls = {}

\* The starts and the ends of the tags the formatter generates.
TagStarts ==
    {H1o, H1c, H2o, H2c, H3o, H3c, STRONGo, STRONGc, EMo, EMc, CODEo, CODEc,
     PREo, PREc, BR, LIo, LIc, ULo, ULc, OLo, OLc, Po, Pc, AHREF, Ac}

TagEnds == (TagStarts \ {AHREF}) \cup {ATAIL}

\* C7: in the output of format every < starts a tag the formatter generates
\* and every > ends one, every & starts an entity of the escape stage, and
\* each <, > and & of the input is in the output as its entity.
C7_NoRawMetacharacters ==
    fmtPc = "return" =>
        /\ \A i \in 1..Len(fmtOut) :
               /\ fmtOut[i] = "<" => \E t \in TagStarts : MatchAt(fmtOut, i, t)
               /\ fmtOut[i] = ">" =>
                      \E t \in TagEnds : MatchAt(fmtOut, i - Len(t) + 1, t)
               /\ fmtOut[i] = "&" =>
                      \E t \in {AMP, LT, GT} : MatchAt(fmtOut, i, t)
        /\ CountOcc(fmtOut, LT) = CountOcc(fmtIn, <<"<">>)
        /\ CountOcc(fmtOut, GT) = CountOcc(fmtIn, <<">">>)
        /\ CountOcc(fmtOut, AMP) = CountOcc(fmtIn, <<"&">>)

\* An input with <, > and & inside a heading with emphasis was formatted.
C7_Witness ==
    /\ fmtPc = "return"
    /\ fmtIn = <<"#", " ", "<", "s", "c", "r", "i", "p", "t", ">", "&", "*", "x", "*">>
    /\ IsSubstring(H1o, fmtOut)
    /\ IsSubstring(EMo, fmtOut)
    /\ IsSubstring(LT, fmtOut)

IsLetter(c) == c \in {"a", "b", "c", "T", "i", "t", "l", "e", "w", "o", "h", "r", "s"}

IsPlain(s) == Len(s) > 0 /\ \A k \in 1..Len(s) : IsLetter(s[k])

\* Consecutive list lines: each line is "- " or "* " and a plain text.
IsListInput(s) ==
    LET ls == Lines(s)
    IN  \A k \in 1..Len(ls) :
            /\ Len(ls[k]) >= 3
            /\ ls[k][1] \in {"-", "*"}
            /\ ls[k][2] = SP
            /\ IsPlain(Drop(ls[k], 2))

\* C8: format of consecutive list lines is one bulleted-list container
\* that wraps one list-item element per input line, in the order of the
\* input.
C8_OneItemPerListLine ==
    fmtPc = "return" /\ IsListInput(fmtIn) =>
        LET ls == Lines(fmtIn)
            item(k) == LIo \o Drop(ls[k], 2) \o LIc
        IN  /\ CountOcc(fmtOut, ULo) = 1
            /\ CountOcc(fmtOut, ULc) = 1
            /\ CountOcc(fmtOut, LIo) = Len(ls)
            /\ \A k \in 1..Len(ls) :
                   /\ IsSubstring(item(k), fmtOut)
                   /\ FirstMatch(fmtOut, 1, ULo) < FirstMatch(fmtOut, 1, item(k))
                   /\ FirstMatch(fmtOut, 1, item(k)) < FirstMatch(fmtOut, 1, ULc)
            /\ \A k \in 1..(Len(ls) - 1) :
                   FirstMatch(fmtOut, 1, item(k)) < FirstMatch(fmtOut, 1, item(k + 1))

\* A heading line: #, ## or ### and a space, then a plain text.
HeadingLevel(s) ==
    IF MatchAt(s, 1, <<"#", "#", "#", SP>>) THEN 3
    ELSE IF MatchAt(s, 1, <<"#", "#", SP>>) THEN 2
    ELSE IF MatchAt(s, 1, <<"#", SP>>) THEN 1
    ELSE 0

IsHeadingInput(s) ==
    HeadingLevel(s) # 0 /\ IsPlain(Drop(s, HeadingLevel(s) + 1))

\* C9: format of a heading line is the heading element of the matching
\* level around the text, and the line is not wrapped in a paragraph
\* element as well.
C9_HeadingNotInParagraph ==
    fmtPc = "return" /\ IsHeadingInput(fmtIn) =>
        LET n == HeadingLevel(fmtIn)
            open == <<H1o, H2o, H3o>>[n]
            close == <<H1c, H2c, H3c>>[n]
        IN  /\ IsSubstring(open \o Drop(fmtIn, n + 1) \o close, fmtOut)
            /\ ~IsSubstring(Po, fmtOut)

\* C10: the log is append-only. No step removes or reorders an entry; a
\* non-empty submit appends exactly the user entry and then the pending
\* placeholder; an entry changes only when the call that created it
\* settles, from pending to final, keeping its sender; an entry that is not
\* pending is never changed.
C10_AppendOnly ==
    [][/\ Len(chatBox') >= Len(chatBox)
       /\ \A i \in 1..Len(chatBox) :
              /\ Sender(chatBox'[i]) = Sender(chatBox[i])
              /\ (~chatBox[i].temporary => chatBox'[i] = chatBox[i])
              /\ (chatBox'[i] # chatBox[i] =>
                      /\ ~chatBox'[i].temporary
                      /\ \E c \in calls :
                             /\ c \notin calls'
                             /\ c.el = i
                             /\ chatBox[i - 1].content = c.userMessage)
       /\ (Len(chatBox') > Len(chatBox) =>
               /\ event' = "submit"
               /\ Len(chatBox') = Len(chatBox) + 2
               /\ Sender(chatBox'[Len(chatBox) + 1]) = "user"
               /\ chatBox'[Len(chatBox) + 1].content = Trim(inputValue)
               /\ ~chatBox'[Len(chatBox) + 1].temporary
               /\ Sender(chatBox'[Len(chatBox) + 2]) = "bot"
               /\ chatBox'[Len(chatBox) + 2].temporary
               /\ chatBox'[Len(chatBox) + 2].content = formatMessageText(THINKING))
       /\ (event' = "submit" /\ Trim(inputValue) # <<>> =>
               Len(chatBox') = Len(chatBox) + 2)
      ]_vars

\* Two exchanges ran to their end: four entries, none pending.
C10_Witness ==
    /\ Len(chatBox) = 4
    /\ Pending = {}
    /\ Cardinality(settled) = 2
    /\ Sender(chatBox[1]) = "user"
    /\ Sender(chatBox[2]) = "bot"
====
